---- MODULE Spec2Model ----
(***************************************************************************)
(* The transformation-and-sharing pipeline of reimagine-future:            *)
(*   - the client session of src/src/App.tsx (React state of App, the      *)
(*     FileReader callbacks, handleReimagine, handleShare, the buttons),   *)
(*   - the share server of src/unnamed/part_000 (the shares table,         *)
(*     POST /api/share, GET /share/:id).                                   *)
(* A JavaScript string is a sequence of tokens; the null reference is the  *)
(* value Null.  An await is a position (pc) of a handler invocation kept   *)
(* in runs; what happens between two awaits is one action.                 *)
(***************************************************************************)
EXTENDS Integers, Sequences, FiniteSets, Bags, TLC

VARIABLES
  selectedJob,   \* useState(OCCUPATIONS[0]): index into OCCUPATIONS
  image,         \* useState<string | null>(null): the source photo (data URL)
  resultImage,   \* useState<string | null>(null)
  shareId,       \* useState<string | null>(null)
  isSharing,     \* useState(false)
  isProcessing,  \* useState(false)
  error,         \* useState<string | null>(null)
  reading,       \* files handed to a FileReader whose onloadend has not fired
  runs,          \* bag of the invocations of handleReimagine / handleShare suspended at an await
  shares,        \* rows of the table shares: [id, image]
  page,          \* the last GET /share/:id of a viewer: the id asked for and the answer
  posted,        \* the last POST /api/share whose answer a viewer read: the body sent and the answer
  minted         \* history: [id, image] of every POST /api/share answered with an id

vars == <<selectedJob, image, resultImage, shareId, isSharing, isProcessing,
          error, reading, runs, shares, page, posted, minted>>

session == <<selectedJob, image, resultImage, shareId, isSharing, isProcessing, error>>

(***************************************************************************)
(* Bounds of the model.                                                    *)
(***************************************************************************)
MaxTheme == 2    \* themes the user picks among (a prefix of OCCUPATIONS)
MaxPhoto == 2    \* distinct photos the user owns
MaxGen == 2      \* distinct images the provider can return
MaxId == 2       \* distinct tokens uuidv4 can return
MaxRuns == 2     \* handler invocations suspended at the same time
MaxParts == 2    \* parts in one provider response

(***************************************************************************)
(* Strings.                                                                *)
(***************************************************************************)
Null == <<"null">>

\* JavaScript truthiness of a string | null | undefined
Falsy(v) == v = Null \/ v = <<>>

Truthy(v) == ~Falsy(v)

\* a || b
OrElse(a, b) == IF Truthy(a) THEN a ELSE b

\* s.startsWith(p)
StartsWith(s, p) == Len(s) >= Len(p) /\ SubSeq(s, 1, Len(p)) = p

RECURSIVE SplitFrom(_, _, _, _)
SplitFrom(s, sep, i, cur) ==
  IF i > Len(s) THEN <<cur>>
  ELSE IF s[i] = sep THEN <<cur>> \o SplitFrom(s, sep, i + 1, <<>>)
  ELSE SplitFrom(s, sep, i + 1, Append(cur, s[i]))

\* s.split(sep), for a separator of one token
Split(s, sep) == SplitFrom(s, sep, 1, <<>>)

\* arr[k] of JavaScript (0-based); undefined is Null
At(arr, k) == IF k + 1 \in DOMAIN arr THEN arr[k + 1] ELSE Null

(***************************************************************************)
(* The theme catalog.                                                      *)
(***************************************************************************)
OCCUPATIONS == <<
  [id |-> <<"interstellar-explorer">>, prompt |-> <<"prompt", "interstellar-explorer">>],
  [id |-> <<"cybernetic-surgeon">>,    prompt |-> <<"prompt", "cybernetic-surgeon">>],
  [id |-> <<"deep-sea-architect">>,    prompt |-> <<"prompt", "deep-sea-architect">>],
  [id |-> <<"galactic-diplomat">>,     prompt |-> <<"prompt", "galactic-diplomat">>],
  [id |-> <<"quantum-ai-engineer">>,   prompt |-> <<"prompt", "quantum-ai-engineer">>] >>

Min(a, b) == IF a < b THEN a ELSE b

Themes == 1..Min(MaxTheme, Len(OCCUPATIONS))

(***************************************************************************)
(* Files and data URLs.                                                    *)
(***************************************************************************)
JpegType == <<"image/", "jpeg">>

TextType == <<"text/", "plain">>

\* the photos of the user: what the file picker (accept="image/*") offers
Photos == [type : {JpegType}, bytes : {<<"photo" \o ToString(i)>> : i \in 1..MaxPhoto}]

\* what the user can drop on the page: a photo, or a file that is no image
Files == Photos \cup {[type |-> TextType, bytes |-> <<"notes">>]}

\* FileReader.readAsDataURL: data:<type>;base64,<bytes>
ReadAsDataURL(file) == <<"data", ":">> \o file.type \o <<";", "base64", ",">> \o file.bytes

\* `data:image/png;base64,${data}`
PngDataURL(data) == <<"data", ":", "image/", "png", ";", "base64", ",">> \o data

(***************************************************************************)
(* The share server: the table shares, POST /api/share, GET /share/:id.    *)
(***************************************************************************)
Ids == {<<"uuid", ToString(i)>> : i \in 1..MaxId}

\* InsertThrows of a table whose id column is no key
InsertThrowsNoKey(rows, id, diskOk) == ~diskOk

\* db.prepare("INSERT INTO shares (id, image) VALUES (?, ?)").run(id, image):
\* id is the PRIMARY KEY, so a row with the same id makes the statement throw,
\* as does a failure of the storage medium (diskOk = FALSE)
InsertThrows(rows, id, diskOk) == ~diskOk \/ \E r \in rows : r.id = id

\* InsertRow of a server that stores only the base64 part of the data URL
InsertRowBase64Only(rows, id, img) == rows \cup {[id |-> id, image |-> At(Split(img, ","), 1)]}

InsertRow(rows, id, img) == rows \cup {[id |-> id, image |-> img]}

\* no response yet
NoResp == [status |-> 0, isJson |-> FALSE, id |-> Null]

\* res.status(400).json({ error: "No image provided" })
BadRequest == [status |-> 400, isJson |-> TRUE, id |-> Null]

\* the handler threw: express answers 500 with an HTML error page
ServerError == [status |-> 500, isJson |-> FALSE, id |-> Null]

\* res.json({ id })
Created(id) == [status |-> 200, isJson |-> TRUE, id |-> id]

\* PostShare of a server that answers { id } although the INSERT threw
PostShareAnswersAnyway(rows, img, id, diskOk) ==
  IF Falsy(img) THEN [rows |-> rows, resp |-> BadRequest]
  ELSE IF InsertThrows(rows, id, diskOk) THEN [rows |-> rows, resp |-> Created(id)]
  ELSE [rows |-> InsertRow(rows, id, img), resp |-> Created(id)]

\* PostShare of a server that rejects only a body without an image field
PostShareUndefinedOnly(rows, img, id, diskOk) ==
  IF img = Null THEN [rows |-> rows, resp |-> BadRequest]
  ELSE IF InsertThrows(rows, id, diskOk) THEN [rows |-> rows, resp |-> ServerError]
  ELSE [rows |-> InsertRow(rows, id, img), resp |-> Created(id)]

\* PostShare of a server that answers a payload it already stores with the id
\* of the stored row
PostShareDedup(rows, img, id, diskOk) ==
  IF Falsy(img) THEN [rows |-> rows, resp |-> BadRequest]
  ELSE IF \E r \in rows : r.image = img
  THEN [rows |-> rows, resp |-> Created((CHOOSE r \in rows : r.image = img).id)]
  ELSE IF InsertThrows(rows, id, diskOk) THEN [rows |-> rows, resp |-> ServerError]
  ELSE [rows |-> InsertRow(rows, id, img), resp |-> Created(id)]

\* app.post("/api/share"): the rows and the response it leaves
PostShare(rows, img, id, diskOk) ==
  IF Falsy(img) THEN [rows |-> rows, resp |-> BadRequest]
  ELSE IF InsertThrows(rows, id, diskOk) THEN [rows |-> rows, resp |-> ServerError]
  ELSE [rows |-> InsertRow(rows, id, img), resp |-> Created(id)]

\* the viewer page: the stored image is the img src and the download href
ViewerPage(img) == <<"<img src=">> \o img \o <<"<a href=">> \o img \o <<"download">>

\* SelectRow of a lookup that takes the id asked for as a prefix (WHERE id LIKE ? || '%')
SelectRowByPrefix(rows, id) == {r \in rows : StartsWith(r.id, id)}

\* db.prepare("SELECT image FROM shares WHERE id = ?").get(id)
SelectRow(rows, id) == {r \in rows : r.id = id}

\* app.get("/share/:id")
GetShare(rows, id) ==
  IF SelectRow(rows, id) = {}
  THEN [status |-> 404, body |-> <<"Image not found">>]
  ELSE [status |-> 200, body |-> ViewerPage((CHOOSE r \in SelectRow(rows, id) : TRUE).image)]

\* the history of the ids handed out, after a response to a POST with this image
Minted(resp, img) ==
  IF resp.status = 200 /\ Truthy(resp.id)
  THEN minted \cup {[id |-> resp.id, image |-> img]}
  ELSE minted

(***************************************************************************)
(* The provider: what generateContent can answer.                          *)
(***************************************************************************)
GenData == {<<"gen" \o ToString(i)>> : i \in 1..MaxGen}

\* a part of the response: a text part, or an inline image part with its data
Parts == {[hasInline |-> FALSE, data |-> <<>>]} \cup [hasInline : {TRUE}, data : GenData]

PartSeqs == UNION {[1..n -> Parts] : n \in 0..MaxParts}

\* response.candidates?.[0]?.content?.parts is undefined, or a list of parts
Responses == {[hasParts |-> FALSE, parts |-> <<>>]} \cup [hasParts : {TRUE}, parts : PartSeqs]

\* err.message of a rejected call: a message, an empty one or none
ProviderMessages == {<<"quota exceeded">>, <<>>, Null}

NoImageMessage == <<"The AI didn't return an image. Please try again.">>

FallbackMessage == <<"Something went wrong during the transformation.">>

RECURSIVE FirstInlineFrom(_, _)
FirstInlineFrom(parts, i) ==
  IF i > Len(parts) THEN 0
  ELSE IF parts[i].hasInline THEN i
  ELSE FirstInlineFrom(parts, i + 1)

\* the for loop over the parts with its break: the index of the first inline
\* image part, 0 when there is none
FirstInline(response) == IF response.hasParts THEN FirstInlineFrom(response.parts, 1) ELSE 0

\* the request handleReimagine sends: the source split into data and MIME type,
\* and the prompt of the selected job
TransformRequest(img, job) ==
  [data     |-> At(Split(img, ","), 1),
   mimeType |-> At(Split(At(Split(img, ";"), 0), ":"), 1),
   text     |-> OCCUPATIONS[job].prompt]

(***************************************************************************)
(* Handler invocations suspended at an await.                              *)
(*   kind  "reimagine" (handleReimagine) or "share" (handleShare)          *)
(*   pc    "generate": awaiting ai.models.generateContent                  *)
(*         "fetch":    awaiting fetch('/api/share'), request not yet served*)
(*         "reply":    the server has answered, the response is on its way *)
(*   image, req   the source the closure read and the request it sent,     *)
(*         kept while the transform is outstanding                         *)
(*   body  the image in the body of the share request                      *)
(*   resp  the response of the server                                      *)
(***************************************************************************)
NoRequest == [data |-> Null, mimeType |-> Null, text |-> <<>>]

\* handleReimagine at the await of generateContent
Generating(img, job) ==
  [kind |-> "reimagine", pc |-> "generate", image |-> img,
   req |-> TransformRequest(img, job), body |-> Null, resp |-> NoResp]

\* a handler at the await of fetch('/api/share', ...) with this image in the body
Fetching(kind, img) ==
  [kind |-> kind, pc |-> "fetch", image |-> Null, req |-> NoRequest,
   body |-> img, resp |-> NoResp]

Active == BagToSet(runs)

Start(run) == BagCardinality(runs) < MaxRuns /\ runs' = runs (+) SetToBag({run})

Finish(run) == runs' = runs (-) SetToBag({run})

Become(run, next) == runs' = (runs (-) SetToBag({run})) (+) SetToBag({next})

(***************************************************************************)
(* What the page renders.                                                  *)
(***************************************************************************)
\* the result panel: isProcessing ? loading : resultImage ? result : error ? error : empty
Status ==
  IF isProcessing THEN "Processing"
  ELSE IF Truthy(resultImage) THEN "Ready"
  ELSE IF Truthy(error) THEN "Failed"
  ELSE "Idle"

\* ReimagineDisabled of a button that forgets isProcessing
ReimagineDisabledNoProcessing == Falsy(image)

\* disabled={!image || isProcessing} of the Reimagine button
ReimagineDisabled == Falsy(image) \/ isProcessing

\* the Try Again button is part of the error panel
TryAgainShown == Status = "Failed"

(***************************************************************************)
(* Initial state.                                                          *)
(***************************************************************************)
Init ==
  /\ selectedJob = 1
  /\ image = Null
  /\ resultImage = Null
  /\ shareId = Null
  /\ isSharing = FALSE
  /\ isProcessing = FALSE
  /\ error = Null
  /\ reading = {}
  /\ runs = EmptyBag
  /\ shares = {}
  /\ page = [id |-> Null, status |-> 0, body |-> <<>>]
  /\ posted = [body |-> Null, resp |-> NoResp]
  /\ minted = {}

(***************************************************************************)
(* Choosing a photo.                                                       *)
(***************************************************************************)
\* handleFileChange: the chosen file goes to a FileReader
FileChange(f) ==
  /\ reading' = reading \cup {f}
  /\ UNCHANGED <<session, runs, shares, page, posted, minted>>

\* onDrop: only a file whose type starts with image/ goes to a FileReader
Drop(f) ==
  /\ reading' = IF StartsWith(f.type, <<"image/">>) THEN reading \cup {f} ELSE reading
  /\ UNCHANGED <<session, runs, shares, page, posted, minted>>

\* reader.onloadend: reader.result is the data URL, or null when the read failed
LoadEnd(f, readOk) ==
  /\ f \in reading
  /\ reading' = reading \ {f}
  /\ image' = IF readOk THEN ReadAsDataURL(f) ELSE Null
  /\ resultImage' = Null
  /\ error' = Null
  /\ UNCHANGED <<selectedJob, shareId, isSharing, isProcessing, runs, shares, page, posted, minted>>

\* SelectTheme of a theme button that also resets the result, as a new source does
SelectThemeResets(j) ==
  /\ selectedJob' = j
  /\ resultImage' = Null
  /\ error' = Null
  /\ UNCHANGED <<image, shareId, isSharing, isProcessing, reading, runs, shares,
                 page, posted, minted>>

\* onClick={() => setSelectedJob(job)}
SelectTheme(j) ==
  /\ selectedJob' = j
  /\ UNCHANGED <<image, resultImage, shareId, isSharing, isProcessing, error,
                 reading, runs, shares, page, posted, minted>>

(***************************************************************************)
(* handleReimagine.                                                        *)
(***************************************************************************)
\* HandleReimagine of a handler without the early return on a missing image
HandleReimagineNoGuard ==
  /\ isProcessing' = TRUE
  /\ error' = Null
  /\ Start(Generating(image, selectedJob))
  /\ UNCHANGED <<selectedJob, image, resultImage, shareId, isSharing,
                 reading, shares, page, posted, minted>>

\* up to the await of generateContent
HandleReimagine ==
  IF Falsy(image) THEN UNCHANGED vars
  ELSE /\ isProcessing' = TRUE
       /\ error' = Null
       /\ Start(Generating(image, selectedJob))
       /\ UNCHANGED <<selectedJob, image, resultImage, shareId, isSharing,
                      reading, shares, page, posted, minted>>

\* a click on the Reimagine button: a disabled button ignores it
ClickReimagine == IF ReimagineDisabled THEN UNCHANGED vars ELSE HandleReimagine

\* a click on Try Again
ClickTryAgain == TryAgainShown /\ HandleReimagine

\* TransformFails of a handler without the finally block
TransformFailsNoFinally(s, message) ==
  /\ error' = OrElse(message, FallbackMessage)
  /\ Finish(s)
  /\ UNCHANGED <<selectedJob, image, resultImage, shareId, isSharing, isProcessing,
                 reading, shares, page, posted, minted>>

\* catch (err): setError(err.message || fallback); finally: setIsProcessing(false)
TransformFails(s, message) ==
  /\ error' = OrElse(message, FallbackMessage)
  /\ isProcessing' = FALSE
  /\ Finish(s)
  /\ UNCHANGED <<selectedJob, image, resultImage, shareId, isSharing,
                 reading, shares, page, posted, minted>>

\* generateContent resolves: the first inline image part becomes the result and
\* is posted to /api/share; no such part throws the "didn't return an image" error
ProviderResolves(s, response) ==
  /\ s \in Active /\ s.kind = "reimagine" /\ s.pc = "generate"
  /\ IF FirstInline(response) = 0
     THEN TransformFails(s, NoImageMessage)
     ELSE LET newImage == PngDataURL(response.parts[FirstInline(response)].data) IN
          /\ resultImage' = newImage
          /\ Become(s, Fetching("reimagine", newImage))
          /\ UNCHANGED <<selectedJob, image, shareId, isSharing, isProcessing,
                         error, reading, shares, page, posted, minted>>

\* generateContent rejects
ProviderRejects(s, message) ==
  /\ s \in Active /\ s.kind = "reimagine" /\ s.pc = "generate"
  /\ TransformFails(s, message)

(***************************************************************************)
(* The share calls of the client.                                          *)
(***************************************************************************)
\* AutoShareCatch of a handler whose share error reaches the outer catch (err)
AutoShareRethrows == FallbackMessage

\* the inner catch (shareErr) of handleReimagine logs and goes on: error is left as it is
AutoShareCatch == error

\* the end of the chained share of handleReimagine: threw says whether fetch or
\* json() threw, id is shareData.id; then the break, and finally setIsProcessing(false)
AutoShareSettles(s, threw, id) ==
  /\ shareId' = IF ~threw /\ Truthy(id) THEN id ELSE shareId
  /\ error' = IF threw THEN AutoShareCatch ELSE error
  /\ isProcessing' = FALSE
  /\ Finish(s)
  /\ UNCHANGED <<selectedJob, image, resultImage, isSharing, reading, shares, page, posted, minted>>

\* ManualShareSettles of a handler that keeps a shareId it already has
ManualShareKeepsId(s, threw, id) ==
  /\ shareId' = IF ~threw /\ Truthy(id) /\ Falsy(shareId) THEN id ELSE shareId
  /\ isSharing' = FALSE
  /\ Finish(s)
  /\ UNCHANGED <<selectedJob, image, resultImage, isProcessing, error, reading,
                 shares, page, posted, minted>>

\* the end of handleShare: catch (err) logs, finally setIsSharing(false)
ManualShareSettles(s, threw, id) ==
  /\ shareId' = IF ~threw /\ Truthy(id) THEN id ELSE shareId
  /\ isSharing' = FALSE
  /\ Finish(s)
  /\ UNCHANGED <<selectedJob, image, resultImage, isProcessing, error, reading,
                 shares, page, posted, minted>>

ShareSettles(s, threw, id) ==
  IF s.kind = "reimagine" THEN AutoShareSettles(s, threw, id)
  ELSE ManualShareSettles(s, threw, id)

\* handleShare up to the await of fetch
HandleShare ==
  IF Falsy(resultImage) THEN UNCHANGED vars
  ELSE /\ isSharing' = TRUE
       /\ Start(Fetching("share", resultImage))
       /\ UNCHANGED <<selectedJob, image, resultImage, shareId, isProcessing, error,
                      reading, shares, page, posted, minted>>

\* the server serves the POST /api/share of invocation s
ServerPosts(s, id, diskOk) ==
  /\ s \in Active /\ s.pc = "fetch"
  /\ LET out == PostShare(shares, s.body, id, diskOk) IN
       /\ shares' = out.rows
       /\ minted' = Minted(out.resp, s.body)
       /\ Become(s, [s EXCEPT !.pc = "reply", !.resp = out.resp])
  /\ UNCHANGED <<session, reading, page, posted>>

\* the response reaches the client: await shareResponse.json() throws on a body
\* that is not JSON, and shareData.id is read otherwise
ShareResponse(s) ==
  /\ s \in Active /\ s.pc = "reply"
  /\ ShareSettles(s, ~s.resp.isJson, s.resp.id)

\* fetch rejects: the request or its response is lost
FetchRejects(s) ==
  /\ s \in Active /\ s.pc \in {"fetch", "reply"}
  /\ ShareSettles(s, TRUE, Null)

(***************************************************************************)
(* Other clients of the server.                                            *)
(***************************************************************************)
\* bodies of a POST /api/share of another client: no image, "", an image
PostBodies == {Null, <<>>, PngDataURL(<<"gen1">>)}

\* the same, with every data URL of the model
ViewerBodies == PostBodies \cup {PngDataURL(d) : d \in GenData} \cup {ReadAsDataURL(f) : f \in Photos}

\* ids a viewer asks for: the tokens, and a prefix of them
GetIds == Ids \cup {<<"uuid">>}

ViewerPost(img, id, diskOk) ==
  /\ shares' = PostShare(shares, img, id, diskOk).rows
  /\ minted' = Minted(PostShare(shares, img, id, diskOk).resp, img)
  /\ UNCHANGED <<session, reading, runs, page, posted>>

\* a client that reads the answer to its POST /api/share
ViewerCreate(img, id, diskOk) ==
  /\ shares' = PostShare(shares, img, id, diskOk).rows
  /\ minted' = Minted(PostShare(shares, img, id, diskOk).resp, img)
  /\ posted' = [body |-> img, resp |-> PostShare(shares, img, id, diskOk).resp]
  /\ UNCHANGED <<session, reading, runs, page>>

ViewerGet(id) ==
  /\ page' = [id |-> id] @@ GetShare(shares, id)
  /\ UNCHANGED <<session, reading, runs, shares, minted, posted>>

(***************************************************************************)
(* The specification.                                                      *)
(***************************************************************************)
Next ==
  \/ \E f \in Photos : FileChange(f)
  \/ \E f \in Files : Drop(f)
  \/ \E f \in Files, readOk \in BOOLEAN : LoadEnd(f, readOk)
  \/ \E j \in Themes : SelectTheme(j)
  \/ ClickReimagine
  \/ ClickTryAgain
  \/ HandleShare
  \/ \E s \in Active, r \in Responses : ProviderResolves(s, r)
  \/ \E s \in Active, m \in ProviderMessages : ProviderRejects(s, m)
  \/ \E s \in Active, id \in Ids, diskOk \in BOOLEAN : ServerPosts(s, id, diskOk)
  \/ \E s \in Active : ShareResponse(s)
  \/ \E s \in Active : FetchRejects(s)
  \/ \E img \in PostBodies, id \in Ids, diskOk \in BOOLEAN : ViewerPost(img, id, diskOk)

\* the session, its server and the posts of other clients
Spec == Init /\ [][Next]_vars

ServerNext ==
  \/ \E img \in ViewerBodies, id \in Ids, diskOk \in BOOLEAN : ViewerCreate(img, id, diskOk)
  \/ \E id \in GetIds : ViewerGet(id)

\* the server alone, under the posts and reads of any clients
ServerSpec == Init /\ [][ServerNext]_vars

\* the promise of generateContent settles: the await of some handleReimagine goes on
ProviderReturns ==
  \E s \in Active :
    \/ \E r \in Responses : ProviderResolves(s, r)
    \/ \E m \in ProviderMessages : ProviderRejects(s, m)

\* the chained share of some handleReimagine moves on: the server serves its
\* request, or the promise of fetch or of json() settles
ChainedShareReturns ==
  \E s \in Active :
    /\ s.kind = "reimagine"
    /\ \/ \E id \in Ids, diskOk \in BOOLEAN : ServerPosts(s, id, diskOk)
       \/ ShareResponse(s)
       \/ FetchRejects(s)

\* the session where the provider call and the chained share call always return
LiveSpec == Init /\ [][Next]_vars /\ WF_vars(ProviderReturns) /\ WF_vars(ChainedShareReturns)

(***************************************************************************)
(* Properties.                                                             *)
(***************************************************************************)
\* invocations of handleReimagine whose transform is outstanding
Transforming == {r \in Active : r.kind = "reimagine" /\ r.pc = "generate"}

\* invocations of handleReimagine whose chained share is outstanding
AutoSharing == {r \in Active : r.kind = "reimagine" /\ r.pc \in {"fetch", "reply"}}

\* the number of transform calls outstanding
Outstanding == BagCardinality([r \in Transforming |-> runs[r]])

\* this step takes invocation r away from where it is
Leaves(r) == CopiesIn(r, runs') < CopiesIn(r, runs)

\* after this step no invocation of handleReimagine is suspended
ReimagineOver == \A q \in BagToSet(runs') : q.kind # "reimagine"

\* the answer to r's share request carries an id the client reads
HasId(r) == r.pc = "reply" /\ r.resp.isJson /\ Truthy(r.resp.id)

\* C1: resultImage and error are never both present
C1_ResultExcludesError == ~(Truthy(resultImage) /\ Truthy(error))

\* C2: shareId is non-empty only if resultImage is non-empty
C2_ShareIdNeedsResult == Truthy(shareId) => Truthy(resultImage)

\* C3: the response to a transform whose source is no longer the session's
\* sourceImage sets none of resultImage, shareId, error and starts no chained share
C3_StaleTransformIgnored ==
  [][\A r \in Transforming :
       (r.image # image /\ Leaves(r))
         => /\ resultImage' = resultImage
            /\ shareId' = shareId
            /\ error' = error
            /\ \A q \in BagToSet(runs') : ~(q.kind = "reimagine" /\ q.pc = "fetch")]_vars

\* C4: at most one transform call is outstanding, and while one is the session
\* is Processing, where the Reimagine button ignores a click and Try Again is not shown
C4_OneTransformAtATime ==
  /\ Outstanding <= 1
  /\ Transforming # {} => (isProcessing /\ Status = "Processing" /\ ~TryAgainShown)

\* a transform is outstanding, a source is present and a further invocation would fit
C4_TransformOutstanding == Outstanding = 1 /\ Truthy(image) /\ BagCardinality(runs) < MaxRuns

\* C5: the step that ends a chained share, whatever its outcome, leaves error
\* absent and resultImage as it was (the transformed image, unless a new source
\* cleared it), and ends the invocation with the processing flag cleared
C5_AutoShareNeverFails ==
  [][\A r \in AutoSharing :
       (Leaves(r) /\ ReimagineOver)
         => /\ error = Null /\ error' = Null
            /\ resultImage' = resultImage
            /\ resultImage \in {r.body, Null}
            /\ ~isProcessing']_vars

\* a session whose transform succeeded and whose chained share gave no id
C5_ShareFailedReady ==
  /\ runs = EmptyBag
  /\ Truthy(resultImage) /\ Falsy(shareId) /\ error = Null /\ ~isProcessing

\* C6: when shareId is non-empty, GET /share/<shareId> answers the page that
\* embeds the current resultImage
C6_ShareIdServesResult ==
  Truthy(shareId) => GetShare(shares, shareId) = [status |-> 200, body |-> ViewerPage(resultImage)]

\* C7: when the read of a chosen file completes with its data URL, sourceImage
\* is that data URL and resultImage, shareId and error are absent
C7_SetSourceClears ==
  [][\A f \in reading :
       (reading' = reading \ {f} /\ image' = ReadAsDataURL(f))
         => (resultImage' = Null /\ shareId' = Null /\ error' = Null)]_vars

\* C8: while the chained share is outstanding the session is Ready, not Processing
C8_ReadyWhileSharing == AutoSharing # {} => (~isProcessing /\ Status = "Ready")

\* C9: the step that ends a chained share without an id read by the client
\* leaves shareId absent (a shareId that a manual share obtained meanwhile for
\* this very image is let through)
C9_FailedShareNoId ==
  [][\A r \in AutoSharing :
       (/\ Leaves(r) /\ ReimagineOver
        /\ ~(HasId(r) /\ shareId' = r.resp.id)
        /\ ~(\E m \in minted : m.id = shareId /\ m.image = r.body))
         => shareId' = Null]_vars

\* C10: the page GET /share/:id answers for an id handed out by a create embeds
\* exactly the image that was posted, and every 200 page a viewer got does
C10_RoundTrip ==
  /\ \A m \in minted :
       GetShare(shares, m.id) = [status |-> 200, body |-> ViewerPage(m.image)]
  /\ page.status = 200 =>
       \E m \in minted : m.id = page.id /\ page.body = ViewerPage(m.image)

\* a viewer read the page of an id that a create handed out
C10_ReadAfterCreate ==
  /\ page.status = 200
  /\ \E m \in minted : m.id = page.id /\ Truthy(m.image) /\ page.body = ViewerPage(m.image)

\* C11: the store is append-only and its records immutable: a step of the server
\* leaves every row where it is, the only row of its id, so the id still maps to
\* the same image, and the number of rows never decreases
C11_AppendOnly ==
  [][/\ \A r \in shares : SelectRow(shares', r.id) = {r}
     /\ \A r \in shares : GetShare(shares', r.id) = GetShare(shares, r.id)
     /\ Cardinality(shares') >= Cardinality(shares)]_vars

\* the store holds a row, every id of the model has been tried since, and a
\* viewer has read a stored page
C11_FullStoreRead == Cardinality(shares) = MaxId /\ page.status = 200

\* the share requests of the session that this step answers with an id
AnsweredCreates ==
  {q \in BagToSet(runs') : /\ q.pc = "reply" /\ q.resp.status = 200
                           /\ CopiesIn(q, runs') > CopiesIn(q, runs)}

\* C12: a create answered with an id got an id that no row and no earlier
\* answer carries, and added exactly the row of that id and its payload, whether
\* or not the payload is stored already; the store changes by one row at a time,
\* and the rows are as many as the creates answered with an id
C12_FreshIdPerCreate ==
  [][/\ \A q \in AnsweredCreates :
          /\ q.resp.id \notin {r.id : r \in shares} \cup {m.id : m \in minted}
          /\ shares' = shares \cup {[id |-> q.resp.id, image |-> q.body]}
          /\ Cardinality(shares') = Cardinality(shares) + 1
     /\ shares' # shares =>
          /\ Cardinality(shares' \ shares) = 1 /\ shares \subseteq shares'
          /\ \A r \in shares' \ shares : r.id \notin {m.id : m \in minted}
          /\ Cardinality(minted') = Cardinality(minted) + 1
     /\ Cardinality(shares) = Cardinality(minted)
     /\ Cardinality(shares') = Cardinality(minted')]_vars

\* two creates of the same payload were answered, one of them a share of the
\* session: the store holds a row for each, under different ids
C12_SamePayloadTwice ==
  /\ \E a, b \in shares : a.id # b.id /\ a.image = b.image
  /\ \E q \in Active : q.pc = "reply" /\ q.resp.status = 200

\* C13: a create whose image is absent or the empty string is answered 400
\* "No image provided" and leaves the store as it is
C13_NoImageRejected ==
  [][(posted' # posted /\ Falsy(posted'.body))
       => (posted'.resp = BadRequest /\ shares' = shares /\ minted' = minted)]_vars

\* a create with the empty string as image was answered 400 while the store held rows
C13_EmptyImageRejected ==
  posted.body = <<>> /\ posted.resp.status = 400 /\ shares # {}

\* the ids handed out so far
MintedIds == {m.id : m \in minted}

\* C14: GET /share/:id for an id that no create has handed out, a prefix of a
\* stored id included, answers 404 "Image not found", and so did every such
\* read of a viewer
C14_UnknownIdNotFound ==
  /\ \A id \in GetIds \ MintedIds :
       GetShare(shares, id) = [status |-> 404, body |-> <<"Image not found">>]
  /\ (page.status # 0 /\ page.id \notin MintedIds)
       => (page.status = 404 /\ page.body = <<"Image not found">>)

\* a viewer asked for a prefix of the ids while every id of the model was
\* stored, and got 404
C14_PrefixNotFound ==
  /\ page.id = <<"uuid">> /\ page.status = 404
  /\ \A id \in Ids : id \in MintedIds /\ StartsWith(id, page.id)

\* this step issues a provider call
IssuesTransform ==
  \E q \in BagToSet(runs') : q.pc = "generate" /\ CopiesIn(q, runs') > CopiesIn(q, runs)

\* C15: while sourceImage is absent, a step of handleReimagine changes nothing
\* (status, resultImage, shareId, error, selectedTheme and all the rest), and no
\* step issues a provider call
C15_SubmitWithoutSource ==
  [][Falsy(image) => ((HandleReimagine => UNCHANGED vars) /\ ~IssuesTransform)]_vars

\* Try Again is on the page, so a click calls handleReimagine, and the source is absent
C15_TryAgainWithoutSource == TryAgainShown /\ Falsy(image) /\ runs = EmptyBag

\* this step sends a POST /api/share of the session
IssuesShare ==
  \E q \in BagToSet(runs') : q.pc = "fetch" /\ CopiesIn(q, runs') > CopiesIn(q, runs)

\* C16: when the provider answers without an inline image part, the session is
\* Failed with the "didn't return an image" error, resultImage is absent and no
\* share request is sent; Try Again is then on the page and, with the source and
\* the theme as they were, sends the request of the failed call again
C16_NoImageFails ==
  [][\A r \in Transforming, resp \in Responses :
       (FirstInline(resp) = 0 /\ ProviderResolves(r, resp))
         => /\ Status' = "Failed"
            /\ error' = NoImageMessage
            /\ resultImage' = Null
            /\ ~IssuesShare
            /\ TryAgainShown'
            /\ (image' = r.image /\ OCCUPATIONS[selectedJob'].prompt = r.req.text)
                 => TransformRequest(image', selectedJob') = r.req]_vars

\* C17: when the provider call fails, the session is Failed with the message of
\* the failure, or the fallback message when it has none, the processing flag is
\* cleared and no share request is sent
C17_ProviderFailureFails ==
  [][\A r \in Transforming, m \in ProviderMessages :
       ProviderRejects(r, m)
         => /\ Status' = "Failed"
            /\ error' = (IF m \in {Null, <<>>} THEN FallbackMessage ELSE m)
            /\ ~isProcessing'
            /\ ~IssuesShare]_vars

\* C18: wherever Try Again is on the page a click moves the session to
\* Processing with error cleared and issues exactly one provider call, carrying
\* the current source and the prompt of the selected theme; and a provider call
\* is issued only by a click on Reimagine or on Try Again
C18_RetryReprocesses ==
  [][/\ TryAgainShown => Truthy(image)
     /\ ClickTryAgain
          => /\ Status' = "Processing" /\ error' = Null
             /\ runs' = runs (+) SetToBag({[Generating(image, selectedJob)
                                             EXCEPT !.req = [data |-> At(Split(image, ","), 1),
                                                             mimeType |-> JpegType,
                                                             text |-> OCCUPATIONS[selectedJob].prompt]]})
     /\ IssuesTransform => (ClickReimagine \/ ClickTryAgain)]_vars

\* invocations of handleShare
ManualSharing == {r \in Active : r.kind = "share"}

\* the invocations of handleShare that this step suspends at its fetch
NewManualShares ==
  {q \in BagToSet(runs') : /\ q.kind = "share" /\ q.pc = "fetch"
                           /\ CopiesIn(q, runs') > CopiesIn(q, runs)}

\* the results of a session step that leaves the result panel alone
SameResult ==
  /\ resultImage' = resultImage /\ error' = error
  /\ isProcessing' = isProcessing /\ Status' = Status

\* C19: handleShare called in Ready, with or without a shareId, posts the
\* current resultImage; the server adds a row of a new id for it and leaves the
\* rows it has, the one of shareId included; an answer with an id overwrites
\* shareId, a failure leaves it; status, resultImage and error stay as they are
\* through all of it
C19_ManualShare ==
  [][/\ (Status = "Ready" /\ HandleShare) => NewManualShares # {}
     /\ \A q \in NewManualShares :
          /\ q.body = resultImage /\ Truthy(resultImage)
          /\ shareId' = shareId /\ shares' = shares /\ SameResult
     /\ \A s \in ManualSharing, id \in Ids, diskOk \in BOOLEAN :
          ServerPosts(s, id, diskOk)
            => /\ shares \subseteq shares'
               /\ shares' \ shares \in {{}, {[id |-> id, image |-> s.body]}}
               /\ (diskOk /\ SelectRow(shares, id) = {}) => shares' # shares
               /\ Truthy(shareId) => GetShare(shares', shareId) = GetShare(shares, shareId)
               /\ shareId' = shareId /\ SameResult
     /\ \A s \in ManualSharing :
          /\ (ShareResponse(s) \/ FetchRejects(s)) => (SameResult /\ shares' = shares)
          /\ (ShareResponse(s) /\ HasId(s)) => shareId' = s.resp.id
          /\ (FetchRejects(s) \/ (ShareResponse(s) /\ ~HasId(s))) => shareId' = shareId]_vars

\* a manual share of the current result, made while shareId was set, has been
\* given a row of its own, next to the row of shareId, and its id is on the way
C19_SecondRecordCreated ==
  /\ Status = "Ready" /\ Truthy(shareId)
  /\ \E s \in ManualSharing :
       /\ HasId(s) /\ s.resp.id # shareId /\ s.body = resultImage
       /\ [id |-> s.resp.id, image |-> resultImage] \in shares
  /\ [id |-> shareId, image |-> resultImage] \in shares

\* C20: every theme can be selected in every state, Processing included; a step
\* that changes selectedJob changes nothing else of the session (source,
\* resultImage, shareId, error, the processing flag and so the status), and leaves
\* every outstanding invocation, with the prompt its request was sent with, as it is
C20_SelectThemeOnly ==
  [][/\ \A j \in Themes : ENABLED SelectTheme(j)
     /\ selectedJob' # selectedJob
          => /\ UNCHANGED <<image, resultImage, shareId, error, isProcessing>>
             /\ Status' = Status
             /\ runs' = runs
             /\ \A r \in Transforming :
                  \E q \in BagToSet(runs') : q.pc = "generate" /\ q.req.text = r.req.text]_vars

\* a transform is outstanding with the prompt of one theme while another theme
\* is selected
C20_ThemeChangedWhileProcessing ==
  /\ Status = "Processing"
  /\ \E r \in Transforming : r.req.text # OCCUPATIONS[selectedJob].prompt

\* C21: the answer to a chained share whose submission is no longer the current
\* one is discarded: when a new source has come in since the result was set
\* (resultImage is no longer the image that was posted), the id that arrives
\* does not change shareId
C21_StaleShareDiscarded ==
  [][\A r \in AutoSharing :
       (ShareResponse(r) /\ resultImage # r.body) => shareId' = shareId]_vars

\* this step ends invocation r of handleReimagine
EndsReimagine(r) == r.kind = "reimagine" /\ Leaves(r) /\ ReimagineOver

C23_ShareIdIsMinted ==
  Truthy(shareId) => (shareId \in MintedIds /\ GetShare(shares, shareId).status = 200)

\* the session holds a shareId while the store also holds a row of another id
C23_ShareIdAmongOthers ==
  /\ Truthy(shareId)
  /\ \E r \in shares : r.id # shareId
  /\ runs = EmptyBag

====
